---- MODULE Spec2Model ----
(***************************************************************************)
(* Model of the dashboard progress indicator                               *)
(* (dashboard/static/dashboard/js/progress.js) and of the scripts that     *)
(* drive it.                                                               *)
(*                                                                         *)
(* Time is counted in ticks of 100 ms: the 1000 ms animation is 10 ticks,  *)
(* the 300 ms construction delay is 3 ticks.                               *)
(*                                                                         *)
(* A JavaScript number is an integer count of tenths (39.9 is 399), or the *)
(* value NaN.  The interpolated value of a frame is kept exactly, as an    *)
(* integer count of units of 1/Unit percent, Unit = 10 * duration^3; an    *)
(* arc length is kept as a count of units of circumference/(100 * Unit),   *)
(* so the circumference is 100 * Unit and the offset of value x is         *)
(* circumference - x.                                                      *)
(***************************************************************************)
EXTENDS Integers, Sequences, FiniteSets, TLC

VARIABLES
    hasInput,          \* #progress-value is in the document
    hasCircle,         \* .progress-circle-fill is in the document
    hasLabel,          \* .progress-percentage is in the document
    hasContainer,      \* .progress-circle-container is in the document
    inputValue,        \* progressInput.value, a sequence of characters
    strokeDasharray,   \* circle.style.strokeDasharray: <<>> unset, <<n>> set
    strokeDashoffset,  \* circle.style.strokeDashoffset: <<>> unset, <<n>> set
    label,             \* percentageText.textContent
    level,             \* the container's data-progress-level attribute
    loaded,            \* the DOMContentLoaded handler has run
    timer,             \* the pending setTimeout of the construction and what its
                       \* callback has captured: <<>> or <<t>>
    rafQueue,          \* the callbacks requestAnimationFrame holds, in order
    now,               \* performance.now(), in ticks
    lastFrame,         \* the timestamp of the last frame delivered
    calls,             \* number of updateProgressCircle calls made so far
    started,           \* history: the animateProgress invocations, in order
    raised,            \* a handler has thrown
    second,            \* a second progress widget, later in the document:
                       \* << >> or << its nodes >>
    statText,          \* the textContent of the h3 of each stat card, by
                       \* the card's data-stat key
    numberQueue,       \* the animateNumber callbacks requestAnimationFrame
                       \* holds, in order
    chartsLoaded,      \* the DOMContentLoaded handler of charts.js has run
    progressDefined,   \* progress.js is on the page: updateProgressCircle is
                       \* a function
    dataLog,           \* history: the updateDashboardData calls, in order
    textColor,         \* percentageText.style.color: "" while unset
    handler,           \* the payment form's submit handler: "idle" or the
                       \* promise it awaits
    submitDisabled,    \* submitButton.disabled
    buttonTextDisplay, \* buttonText.style.display: "" while unset
    spinnerDisplay,    \* spinner.style.display: "" while unset
    cardErrors,        \* the textContent of #card-errors
    location,          \* window.location.href
    hasToken,          \* the form holds the csrfmiddlewaretoken input
    modalDisplay,      \* the display style of #paymentModal
    selectedTier,      \* the value of #selected-tier
    requests,          \* history: the calls of the submission under way or
                       \* last completed, each with its reply
    submits,           \* history: number of submit events handled
    completed,         \* history: number of handler invocations that ended
    script,            \* the navbar script the page loads: baseapp's
                       \* index.js or its mobile.js
    mediaMatches,      \* media.matches: the viewport is at most 780px
                       \* (700px for mobile.js) wide
    show,              \* navbar's class list holds 'show'
    inert,             \* navbar has the inert attribute
    ariaExpanded,      \* aria-expanded of the open button: "" while absent
    dropdownDisplay,   \* dropdown.style.display
    classesDisplay,    \* classes.style.display
    siteTitleDisplay,  \* siteTitle.style.display: "" while unset
    marginLeft,        \* the element found as .marginLeft has that class
    navLog,            \* history: the navbar's handlers called, in order
    currentSlide,      \* per slide: its class list holds 'current-slide'
    ariaHidden,        \* per slide: its aria-hidden attribute, "" if absent
    currentDot,        \* per dot: its class list holds 'current-dot'
    ariaSelected,      \* per dot: its aria-selected attribute, "" if absent
    transform,         \* track.style.transform: << >> while unset, or
                       \* << x >> for translateX(-x px)
    clickLog,          \* history: the carousel's clicks handled, in order,
                       \* each with the classes as they were before it
    barFills,          \* the .bar-fill elements of the chart container, in
                       \* document order: data-value and style.width
    chartDiv,          \* which chart the container holds: 0 the one served
                       \* with the page, n the one of the n-th createBarChart
    observed,          \* the charts the intersection observer observes
    animated,          \* dataset.animated of the chart served with the page
    barTimers,         \* the pending setTimeout callbacks of bargraph.js
    barNow,            \* the clock of the page with the bar chart, in ticks
    barsLoaded,        \* the DOMContentLoaded handler of bargraph.js has run
    lastUpdate         \* history: << newData >> of the last updateBarChart
                       \* call made on the chart the container holds

\* the variables of the dashboard pages
dashboardVars ==
    << hasInput, hasCircle, hasLabel, hasContainer, inputValue,
       strokeDasharray, strokeDashoffset, label, level, loaded, timer,
       rafQueue, now, lastFrame, calls, started, raised, second,
       statText, numberQueue, chartsLoaded, progressDefined, dataLog,
       textColor >>

\* the variables of the payment form of the services page
paymentVars ==
    << handler, submitDisabled, buttonTextDisplay, spinnerDisplay, cardErrors,
       location, hasToken, modalDisplay, selectedTier, requests, submits,
       completed >>

\* the variables of the navbar
navVars ==
    << script, mediaMatches, show, inert, ariaExpanded, dropdownDisplay,
       classesDisplay, siteTitleDisplay, marginLeft, navLog >>

\* the variables of the carousel
carouselVars ==
    << currentSlide, ariaHidden, currentDot, ariaSelected, transform,
       clickLog >>

\* the variables of the bar chart
barVars ==
    << barFills, chartDiv, observed, animated, barTimers, barNow, barsLoaded,
       lastUpdate >>

\* the variables of the pages other than the dashboards
otherPages == << paymentVars, navVars, carouselVars, barVars >>

\* all variables but those of the payment form, of the navbar, of the
\* carousel, of the bar chart
besidesPayment == << dashboardVars, navVars, carouselVars, barVars >>
besidesNavbar == << dashboardVars, paymentVars, carouselVars, barVars >>
besidesCarousel == << dashboardVars, paymentVars, navVars, barVars >>
besidesBars == << dashboardVars, paymentVars, navVars, carouselVars >>

vars == << dashboardVars, otherPages >>

\* what the handlers write of the nodes of the progress widgets
nodeVars ==
    << strokeDasharray, strokeDashoffset, label, level, textColor, second >>

\* the state of the dashboard's statistics
chartVars ==
    << statText, numberQueue, chartsLoaded, progressDefined, dataLog >>

domVars == << hasInput, hasCircle, hasLabel, hasContainer, inputValue >>

---------------------------------------------------------------------------
(* Bounds of the model *)

MaxTime == 15        \* the clock stops here
MaxUpdates == 2      \* external updateProgressCircle calls per behaviour
MaxLag == 1          \* how far a frame's timestamp may lie behind the clock

---------------------------------------------------------------------------
(* Numbers *)

\* the number that is not a number, kept apart from every value in use
NaN == -99999999

Min(a, b) == IF a <= b THEN a ELSE b

Cube(x) == x * x * x

\* the length of an animation run, 1000 ms, in ticks
duration == 10

\* the delay of the first animation, 300 ms, in ticks
delay == 3

Unit == 10 * Cube(duration)

circumference == 100 * Unit

\* a value given in tenths of a percent, in units
InUnits(v) == v * Cube(duration)

\* Math.floor in the place of Math.round
MathFloor(x) == x \div Unit

\* Math.round of a value in units: floor(x + 0.5)
MathRound(x) == (2 * x + Unit) \div (2 * Unit)

\* String(n) + '%'
PercentText(n) == IF n = NaN THEN "NaN%" ELSE ToString(n) \o "%"

---------------------------------------------------------------------------
(* parseFloat: optional sign, digits, optional fraction; the longest      *)
(* numeric prefix is parsed and anything after it ignored; no digits      *)
(* gives NaN.  The result is in tenths: the first fractional digit is     *)
(* kept (the inputs of the model carry at most one).                      *)

DigitChars == << "0", "1", "2", "3", "4", "5", "6", "7", "8", "9" >>

IsDigit(c) == \E d \in 1..10 : DigitChars[d] = c

DigitOf(c) == (CHOOSE d \in 1..10 : DigitChars[d] = c) - 1

RECURSIVE DigitRun(_, _)
\* the length of the run of digits of s that starts at position i
DigitRun(s, i) ==
    IF i <= Len(s) /\ IsDigit(s[i]) THEN 1 + DigitRun(s, i + 1) ELSE 0

RECURSIVE DigitsValue(_, _, _)
\* the value of the n digits of s that start at position i
DigitsValue(s, i, n) ==
    IF n = 0 THEN 0
    ELSE 10 * DigitsValue(s, i, n - 1) + DigitOf(s[i + n - 1])

parseFloat(s) ==
    LET neg == Len(s) >= 1 /\ s[1] = "-"
        first == IF Len(s) >= 1 /\ s[1] \in {"-", "+"} THEN 2 ELSE 1
        n == DigitRun(s, first)
        dot == first + n
        hasDot == dot <= Len(s) /\ s[dot] = "."
        m == IF hasDot THEN DigitRun(s, dot + 1) ELSE 0
        whole == DigitsValue(s, first, n)
        tenth == IF m >= 1 THEN DigitOf(s[dot + 1]) ELSE 0
        magnitude == 10 * whole + tenth
    IN  IF n = 0 /\ m = 0 THEN NaN
        ELSE IF neg THEN 0 - magnitude ELSE magnitude

\* x || 0 on a number: NaN and 0 are falsy
OrZero(x) == IF x = NaN \/ x = 0 THEN 0 ELSE x

---------------------------------------------------------------------------
(* The level written to data-progress-level.  A comparison with NaN is    *)
(* false.                                                                  *)

GreaterOrEqual(x, n) == x # NaN /\ x >= n

\* initializeProgressCircle, lines 27-37
progressLevel(progressValue) ==
    IF GreaterOrEqual(progressValue, 1000) THEN "complete"
    ELSE IF GreaterOrEqual(progressValue, 700) THEN "high"
    ELSE IF GreaterOrEqual(progressValue, 400) THEN "medium"
    ELSE "low"

\* the thresholds compared with > in the place of >=
newProgressLevelStrict(newProgress) ==
    IF newProgress # NaN /\ newProgress > 1000 THEN "complete"
    ELSE IF newProgress # NaN /\ newProgress > 700 THEN "high"
    ELSE IF newProgress # NaN /\ newProgress > 400 THEN "medium"
    ELSE "low"

\* updateProgressCircle, lines 91-101
newProgressLevel(newProgress) ==
    IF GreaterOrEqual(newProgress, 1000) THEN "complete"
    ELSE IF GreaterOrEqual(newProgress, 700) THEN "high"
    ELSE IF GreaterOrEqual(newProgress, 400) THEN "medium"
    ELSE "low"

\* animateVaultProgress of the vault dashboard
vaultLevel(targetProgress) ==
    IF GreaterOrEqual(targetProgress, 1000) THEN "complete"
    ELSE IF GreaterOrEqual(targetProgress, 700) THEN "high"
    ELSE IF GreaterOrEqual(targetProgress, 400) THEN "medium"
    ELSE "low"

---------------------------------------------------------------------------
(* Inputs *)

\* texts of the input element
InputTexts == { << "7", "3" >> }

\* arguments of the external update calls: 30, 50, 90
Targets == { 300, 500, 900 }

\* a wider range of texts of the input element
ValueTexts ==
    { << >>, << "a", "b", "c" >>, << "-", "1", "0" >>, << "0" >>,
      << "3", "9", ".", "9" >>, << "4", "0" >>, << "6", "9", ".", "9" >>,
      << "7", "0" >>, << "7", "2", ".", "5" >>, << "9", "9", ".", "9" >>,
      << "1", "0", "0" >>, << "1", "5", "0", "p", "x" >> }

\* a wider range of arguments of an update call, in tenths
Values == { NaN, -100, 0, 300, 399, 400, 699, 700, 725, 999, 1000, 1500 }

---------------------------------------------------------------------------
(* The state of the page before DOMContentLoaded *)

\* the text of .progress-percentage in the served page
templateLabel == "0%"

\* the nodes of a widget as served, its input element holding text
Widget(text) ==
    [ inputValue |-> text,
      strokeDasharray |-> << >>,
      strokeDashoffset |-> << >>,
      label |-> templateLabel,
      level |-> "",
      color |-> "" ]

\* the page as served, the input element of its first progress widget
\* holding one of texts, with one of seconds after it
Page(texts, seconds) ==
    /\ hasInput \in BOOLEAN
    /\ hasCircle \in BOOLEAN
    /\ hasLabel \in BOOLEAN
    /\ hasContainer \in BOOLEAN
    /\ inputValue \in (IF hasInput THEN texts ELSE { << >> })
    /\ strokeDasharray = << >>
    /\ strokeDashoffset = << >>
    /\ label = templateLabel
    /\ level = ""
    /\ textColor = ""
    /\ loaded = FALSE
    /\ timer = << >>
    /\ rafQueue = << >>
    /\ now = 0
    /\ lastFrame = -1
    /\ calls = 0
    /\ started = << >>
    /\ raised = FALSE
    /\ second \in seconds

\* the payment form as served, with or without the CSRF token input
PaymentForm(tokens) ==
    /\ handler = "idle"
    /\ submitDisabled = FALSE
    /\ buttonTextDisplay = ""
    /\ spinnerDisplay = ""
    /\ cardErrors = ""
    /\ location = "services"
    /\ hasToken \in tokens
    /\ modalDisplay = "none"
    /\ selectedTier = ""
    /\ requests = << >>
    /\ submits = 0
    /\ completed = 0

\* what updateNavbar leaves of the navbar for a viewport that is mobile or
\* not: index.js writes also the site title and the margin class
updated(isMobile) ==
    [ inert |-> isMobile,
      dropdownDisplay |-> IF isMobile THEN "none" ELSE "block",
      classesDisplay |-> IF isMobile THEN "block" ELSE "none",
      siteTitleDisplay |-> IF script = "mobile.js" THEN ""
                           ELSE IF isMobile THEN "none" ELSE "block",
      marginLeft |-> script = "mobile.js" \/ ~isMobile ]

\* the navbar once its script has run: the sidebar closed as served, the
\* open button with aria-expanded false or without it, and updateNavbar
\* called for the viewport the page opens in
Navbar(scripts, viewports, attributes) ==
    /\ script \in scripts
    /\ mediaMatches \in viewports
    /\ show = FALSE
    /\ ariaExpanded \in attributes
    /\ inert = updated(mediaMatches).inert
    /\ dropdownDisplay = updated(mediaMatches).dropdownDisplay
    /\ classesDisplay = updated(mediaMatches).classesDisplay
    /\ siteTitleDisplay = updated(mediaMatches).siteTitleDisplay
    /\ marginLeft = updated(mediaMatches).marginLeft
    /\ navLog = << >>

NumSlides == 3

Indices == 0..(NumSlides - 1)

\* the carousel as served: one slide of starts is the current one and the
\* dot of the same index the current dot; the aria attributes are either
\* served to match or absent; the track has no transform yet
Carousel(starts, attributes) ==
    /\ \E c \in starts, served \in attributes :
        /\ currentSlide = [ i \in Indices |-> i = c ]
        /\ currentDot = [ i \in Indices |-> i = c ]
        /\ ariaHidden = [ i \in Indices |->
                            IF ~served THEN ""
                            ELSE IF i = c THEN "false" ELSE "true" ]
        /\ ariaSelected = [ i \in Indices |->
                              IF ~served THEN ""
                              ELSE IF i = c THEN "true" ELSE "false" ]
    /\ transform = << >>
    /\ clickLog = << >>

\* a bar as the page or createBarChart makes it: its data-value attribute
\* and its width, << >> while style.width is unset
Fill(dataValue, width) == [ dataValue |-> dataValue, width |-> width ]

\* the chart container as served: empty, or holding a chart whose bars
\* carry one of the given sequences of data-value attributes
BarChart(served) ==
    /\ barFills \in served
    /\ chartDiv = 0
    /\ observed = { }
    /\ animated = FALSE
    /\ barTimers = { }
    /\ barNow = 0
    /\ barsLoaded = FALSE
    /\ lastUpdate = << >>

\* no page other than a dashboard is in use
NoOtherPages ==
    /\ PaymentForm({ TRUE })
    /\ Navbar({ "index.js" }, { FALSE }, { "false" })
    /\ Carousel({ 0 }, { TRUE })
    /\ BarChart({ << >> })

\* a page without stat cards, served with progress.js
NoCharts ==
    /\ statText = << >>
    /\ numberQueue = << >>
    /\ chartsLoaded = FALSE
    /\ progressDefined = TRUE
    /\ dataLog = << >>

\* a page with one progress widget
Init ==
    Page(InputTexts, { << >> }) /\ NoCharts /\ NoOtherPages

InitValues ==
    Page(ValueTexts, { << >> }) /\ NoCharts /\ NoOtherPages

\* a page with a second, complete progress widget, its input holding 30
InitTwo ==
    Page(InputTexts, { << Widget(<< "3", "0" >>) >> }) /\ NoCharts /\ NoOtherPages

---------------------------------------------------------------------------
(* Selecting elements.  A widget is numbered by its place in the document, *)
(* and a reference to an element is the number of its widget, 0 for null.  *)

\* the last match in the place of the first
querySelectorLast(matches) ==
    IF matches = << >> THEN 0 ELSE matches[Len(matches)]

\* document.querySelector and document.getElementById: the first match in
\* document order, or null
querySelector(matches) == IF matches = << >> THEN 0 ELSE matches[1]

\* the widgets that hold an element of one kind, in document order; inFirst
\* says whether the first widget holds it
Matches(inFirst) ==
    (IF inFirst THEN << 1 >> ELSE << >>)
        \o (IF second = << >> THEN << >> ELSE << 2 >>)

\* document.getElementById('progress-value') (line 9)
selectedInput == querySelector(Matches(hasInput))

\* document.querySelector('.progress-circle-fill') (lines 13 and 82)
selectedCircle == querySelector(Matches(hasCircle))

\* document.querySelector('.progress-percentage') (lines 14 and 83)
selectedLabel == querySelector(Matches(hasLabel))

\* document.querySelector('.progress-circle-container') (lines 15 and 84)
selectedContainer == querySelector(Matches(hasContainer))

\* the nodes of the widgets, by widget
Nodes ==
    << [ inputValue |-> inputValue,
         strokeDasharray |-> strokeDasharray,
         strokeDashoffset |-> strokeDashoffset,
         label |-> label,
         level |-> level,
         color |-> textColor ] >> \o second

\* the nodes take the state n
Store(n) ==
    /\ strokeDasharray' = n[1].strokeDasharray
    /\ strokeDashoffset' = n[1].strokeDashoffset
    /\ label' = n[1].label
    /\ level' = n[1].level
    /\ textColor' = n[1].color
    /\ second' = Tail(n)

---------------------------------------------------------------------------
(* animateProgress: the closure it creates and its frame callback *)

\* element.style.property = value: a value that is not a number is ignored
SetStyle(old, value) == IF value = NaN THEN old ELSE << value >>

startProgress == 0

\* a closure whose target is added to that of the run in flight
RunAdding(circle, percentageText, targetProgress, kind) ==
    [ startTime |-> now,
      targetProgress |->
          IF rafQueue = << >> THEN targetProgress
          ELSE targetProgress + rafQueue[Len(rafQueue)].targetProgress,
      kind |-> kind,
      circle |-> circle,
      percentageText |-> percentageText,
      frames |-> 0,
      shown |-> IF percentageText = 0 THEN ""
                ELSE Nodes[percentageText].label ]

\* the closure of one animateProgress call (lines 47-50, 77), holding the
\* references circle and percentageText that were passed in
Run(circle, percentageText, targetProgress, kind) ==
    [ startTime |-> now,
      targetProgress |-> targetProgress,
      kind |-> kind,          \* history: started by "init" or by "update"
      circle |-> circle,
      percentageText |-> percentageText,
      frames |-> 0,           \* history: frames of this run executed, up to 2
      \* history: the label when the run was started
      shown |-> IF percentageText = 0 THEN ""
                ELSE Nodes[percentageText].label ]

\* requestAnimationFrame(updateProgress) of a new run, and the history of it
animateProgress(circle, percentageText, targetProgress, kind) ==
    /\ rafQueue' = Append(rafQueue,
                          Run(circle, percentageText, targetProgress, kind))
    /\ started' = Append(started, [ kind |-> kind,
                                    targetProgress |-> targetProgress,
                                    startTime |-> now ])

\* elapsed / duration, capped at 1, as a count of 1/duration
Progress(elapsed) == Min(elapsed, duration)

\* 1 - Math.pow(1 - progress, 3), as a count of 1/duration^3
EaseOut(progress) == Cube(duration) - Cube(duration - progress)

\* startProgress + (targetProgress - startProgress) * easeOut, in units
CurrentValue(targetProgress, easeOut) ==
    IF targetProgress = NaN THEN NaN
    ELSE InUnits(startProgress) + (targetProgress - startProgress) * easeOut

\* circumference - (value / 100) * circumference, for a value in units
Offset(value) == IF value = NaN THEN NaN ELSE circumference - value

\* Math.round(value) + '%', for a value in units
Text(value) == PercentText(IF value = NaN THEN NaN ELSE MathRound(value))

\* a test that the capped progress never fails
ContinueAtEnd(progress) == progress <= duration

\* the run goes on after this frame (line 68)
Continue(progress) == progress < duration

\* the values the last frame of a run writes (lines 72-73)
FinalOffset(targetProgress) ==
    Offset(IF targetProgress = NaN THEN NaN ELSE InUnits(targetProgress))

FinalText(targetProgress) ==
    Text(IF targetProgress = NaN THEN NaN ELSE InUnits(targetProgress))

\* One call of the frame callback of run r (lines 52-75) on the page state
\* d = [nodes, raised, queue]: queue collects the callbacks requested during
\* the frame.  A write through a null reference throws and ends the callback.
updateProgress(r, currentTime, d) ==
    LET elapsed == currentTime - r.startTime
        progress == Progress(elapsed)
        easeOut == EaseOut(progress)
        currentValue == CurrentValue(r.targetProgress, easeOut)
        last == ~Continue(progress)
    IN  IF r.circle = 0 THEN [ d EXCEPT !.raised = TRUE ]
        ELSE IF r.percentageText = 0
        THEN [ d EXCEPT !.nodes[r.circle].strokeDashoffset =
                            SetStyle(@, Offset(currentValue)),
                        !.raised = TRUE ]
        ELSE IF ~last
        THEN [ d EXCEPT !.nodes[r.circle].strokeDashoffset =
                            SetStyle(@, Offset(currentValue)),
                        !.nodes[r.percentageText].label = Text(currentValue),
                        !.queue = Append(d.queue,
                                         [ r EXCEPT !.frames = Min(@ + 1, 2) ]) ]
        ELSE [ d EXCEPT !.nodes[r.circle].strokeDashoffset =
                            SetStyle(SetStyle(@, Offset(currentValue)),
                                     FinalOffset(r.targetProgress)),
                        !.nodes[r.percentageText].label =
                            FinalText(r.targetProgress) ]

---------------------------------------------------------------------------
(* The progress circle of the vault dashboard (vault-dashboard.js), which  *)
(* animates the same nodes.  In a specification of the vault dashboard a   *)
(* tick is 200 ms.                                                         *)

\* the length of the vault's animation, 2000 ms, in ticks of 200 ms
vaultDuration == 10

\* the count of 1/VaultUnit percent in which the vault's values are kept
VaultUnit == 10 * Cube(vaultDuration)

\* the closure of one animateVaultProgress call (lines 17-28, 56)
VaultRun(circleFill, progressPercentEl, targetProgress) ==
    [ startTime |-> now,
      targetProgress |-> targetProgress,
      kind |-> "vault",
      circle |-> circleFill,
      percentageText |-> progressPercentEl,
      frames |-> 0,
      shown |-> Nodes[progressPercentEl].label ]

\* the colour updateProgressTextColor gives a value (lines 60-66)
ProgressTextColor(progress) ==
    IF progress >= 100 THEN "#192EFF"
    ELSE IF progress >= 70 THEN "#19FF5A"
    ELSE IF progress >= 40 THEN "#FFCE19"
    ELSE "#FF2B2B"

\* circumference - (circumference * current) / 100 (line 47), for a whole
\* percentage current
VaultOffset(current) == circumference - current * Unit

\* One call of the frame callback of the vault's run r (lines 37-54)
vaultUpdateProgress(r, currentTime, d) ==
    LET elapsed == currentTime - r.startTime
        t == Min(elapsed, vaultDuration)
        easeOut == Cube(vaultDuration) - Cube(vaultDuration - t)
        value == r.targetProgress * easeOut
        current == (2 * value + VaultUnit) \div (2 * VaultUnit)
        written ==
            [ d EXCEPT !.nodes[r.percentageText].label = PercentText(current),
                       !.nodes[r.circle].strokeDashoffset =
                           << VaultOffset(current) >>,
                       !.nodes[r.percentageText].color =
                           ProgressTextColor(current) ]
    IN  IF t < vaultDuration
        THEN [ written EXCEPT !.queue =
                   Append(@, [ r EXCEPT !.frames = Min(@ + 1, 2) ]) ]
        ELSE written

\* the frame callback of a run: that of its script
callback(r, currentTime, d) ==
    IF r.kind = "vault" THEN vaultUpdateProgress(r, currentTime, d)
    ELSE updateProgress(r, currentTime, d)

RECURSIVE runCallbacksReversed(_, _, _)
\* the callbacks of one frame, the one requested last first
runCallbacksReversed(queue, currentTime, d) ==
    IF queue = << >> THEN d
    ELSE runCallbacksReversed(SubSeq(queue, 1, Len(queue) - 1), currentTime,
                              callback(queue[Len(queue)], currentTime, d))

RECURSIVE runCallbacks(_, _, _)
\* the callbacks of one frame, in the order they were requested
runCallbacks(queue, currentTime, d) ==
    IF queue = << >> THEN d
    ELSE runCallbacks(Tail(queue), currentTime,
                      callback(Head(queue), currentTime, d))

---------------------------------------------------------------------------
(* The statistics of the dashboard (charts.js).  A stat value is a whole   *)
(* number, and the text of a stat card is a sequence of characters.        *)

\* the length of the count-up on load, 1500 ms, in ticks
loadDuration == 15

\* the length of the animation of an updated number, 1000 ms, in ticks
updateDuration == 10

RECURSIVE Digits(_)
\* the decimal digits of a natural number
Digits(n) ==
    IF n < 10 THEN << DigitChars[n + 1] >>
    ELSE Digits(n \div 10) \o << DigitChars[(n % 10) + 1] >>

\* the text a number is written as when it is assigned to textContent
NumberText(n) ==
    IF n = NaN THEN << "N", "a", "N" >>
    ELSE IF n < 0 THEN << "-" >> \o Digits(0 - n)
    ELSE Digits(n)

\* parseInt: an optional sign and the longest run of digits after it; no
\* digit gives NaN
parseInt(s) ==
    LET neg == Len(s) >= 1 /\ s[1] = "-"
        first == IF Len(s) >= 1 /\ s[1] \in {"-", "+"} THEN 2 ELSE 1
        n == DigitRun(s, first)
        magnitude == DigitsValue(s, first, n)
    IN  IF n = 0 THEN NaN
        ELSE IF neg THEN 0 - magnitude ELSE magnitude

\* the closure of one animateNumber call (lines 55-56, 75)
NumberRun(element, start, end, length) ==
    [ element |-> element,
      start |-> start,
      end |-> end,
      duration |-> length,
      startTime |-> now ]

\* Math.round(start + (end - start) * easeOut) of run r, its progress given
\* as a count of 1/r.duration (lines 63-64)
NumberAt(r, progress) ==
    LET whole == Cube(r.duration)
        easeOut == whole - Cube(r.duration - progress)
        value == r.start * whole + (r.end - r.start) * easeOut
    IN  (2 * value + whole) \div (2 * whole)

\* One call of the frame callback of run r (lines 58-73) on d = [texts,
\* queue]: queue collects the callbacks requested during the frame.
update(r, currentTime, d) ==
    LET elapsed == currentTime - r.startTime
        progress == Min(elapsed, r.duration)
        current == NumberAt(r, progress)
    IN  IF progress < r.duration
        THEN [ d EXCEPT !.texts[r.element] = NumberText(current),
                        !.queue = Append(@, r) ]
        ELSE [ d EXCEPT !.texts[r.element] = NumberText(r.end) ]

RECURSIVE runNumberCallbacks(_, _, _)
\* the animateNumber callbacks of one frame, in the order they were requested
runNumberCallbacks(queue, currentTime, d) ==
    IF queue = << >> THEN d
    ELSE runNumberCallbacks(Tail(queue), currentTime,
                            update(Head(queue), currentTime, d))

\* the completion criteria: weights in hundredths (lines 225-233)
criteria ==
    [ accounts |-> [ weight |-> 25, target |-> 10 ],
      devices |-> [ weight |-> 15, target |-> 5 ],
      contacts |-> [ weight |-> 20, target |-> 5 ],
      estates |-> [ weight |-> 15, target |-> 3 ],
      documents |-> [ weight |-> 15, target |-> 5 ],
      family_knows |-> [ weight |-> 5, target |-> 3 ],
      care_relations |-> [ weight |-> 5, target |-> 1 ] ]

\* Object.keys(criteria)
KeyOrder ==
    << "accounts", "devices", "contacts", "estates", "documents",
       "family_knows", "care_relations" >>

\* a common multiple of the targets: a share count / target is kept as a
\* count of 1/Scale
Scale == 3 * 10

\* counts[key] || 0
CountOf(counts, key) ==
    IF key \in DOMAIN counts THEN OrZero(counts[key]) ELSE 0

\* the share without its cap at 1
itemProgressUncapped(count, weight, target) ==
    count * (Scale \div target) * weight

\* Math.min(count / target, 1) * weight, as a count of 1/(100 * Scale)
\* (line 240)
itemProgress(count, weight, target) ==
    Min(count * (Scale \div target), Scale) * weight

RECURSIVE totalProgress(_, _)
\* the sum of the item progress of the first n keys (lines 235-242)
totalProgress(counts, n) ==
    IF n = 0 THEN 0
    ELSE totalProgress(counts, n - 1)
             + itemProgress(CountOf(counts, KeyOrder[n]),
                            criteria[KeyOrder[n]].weight,
                            criteria[KeyOrder[n]].target)

\* Math.round(totalProgress * 100) (line 244).  The sum is one of
\* floating-point products: where its exact value lies halfway between two
\* integers the computed sum may fall short of it, and the result is then the
\* lower integer; short says whether it does.
calculateProgress(counts, short) ==
    LET total == totalProgress(counts, Len(KeyOrder))
        rounded == (2 * total + Scale) \div (2 * Scale)
        halfway == (2 * total) % (2 * Scale) = Scale
    IN  IF halfway /\ short THEN rounded - 1 ELSE rounded

RECURSIVE animateStatCards(_, _)
\* animateStatCards (lines 41-53) over the first n keys: a count-up for each
\* card whose text is a number
animateStatCards(n, queue) ==
    IF n = 0 THEN queue
    ELSE LET before == animateStatCards(n - 1, queue)
             element == KeyOrder[n]
         IN  IF element \notin DOMAIN statText THEN before
             ELSE LET targetNumber == parseInt(statText[element])
                  IN  IF targetNumber # NaN
                      THEN Append(before, NumberRun(element, 0, targetNumber,
                                                    loadDuration))
                      ELSE before

RECURSIVE updateStatCards(_, _, _)
\* the loop of updateDashboardData (lines 250-259) over the first n keys: an
\* animation for each key of newData that has a card showing another number
updateStatCards(newData, n, queue) ==
    IF n = 0 THEN queue
    ELSE LET before == updateStatCards(newData, n - 1, queue)
             key == KeyOrder[n]
         IN  IF key \notin DOMAIN newData \/ key \notin DOMAIN statText
             THEN before
             ELSE LET newValue == newData[key]
                      oldValue == OrZero(parseInt(statText[key]))
                  IN  IF newValue # oldValue
                      THEN Append(before, NumberRun(key, oldValue, newValue,
                                                    updateDuration))
                      ELSE before

---------------------------------------------------------------------------
(* Handlers *)

\* the guard without its test of the arc element
ElementMissingButCircle == selectedLabel = 0 \/ selectedContainer = 0

\* a required element is missing (lines 17 and 86)
ElementMissing ==
    selectedCircle = 0 \/ selectedLabel = 0 \/ selectedContainer = 0

\* the dash offset of 100%, which draws the whole arc
FullDash == circumference - 100 * Unit

\* the dash array and dash offset of the initial state (lines 24-25)
EmptyDash == circumference

\* the DOMContentLoaded handler (lines 4-45)
initializeProgressCircle ==
    /\ ~loaded
    /\ loaded' = TRUE
    /\ IF selectedInput = 0 \/ ElementMissing
       THEN UNCHANGED << nodeVars, timer, raised >>
       ELSE LET progressValue ==
                    OrZero(parseFloat(Nodes[selectedInput].inputValue))
                dashed ==
                    [ Nodes EXCEPT
                        ![selectedCircle].strokeDasharray =
                            SetStyle(@, EmptyDash),
                        ![selectedCircle].strokeDashoffset =
                            SetStyle(@, EmptyDash) ]
            IN  IF selectedCircle = 0
                THEN \* circle.style of null throws (line 24)
                     /\ raised' = TRUE
                     /\ UNCHANGED << nodeVars, timer >>
                ELSE IF selectedContainer = 0
                THEN \* container.setAttribute of null throws (line 39)
                     /\ Store(dashed)
                     /\ raised' = TRUE
                     /\ UNCHANGED timer
                ELSE /\ Store([ dashed EXCEPT ![selectedContainer].level =
                                                 progressLevel(progressValue) ])
                     /\ timer' = << [ due |-> now + delay,
                                      circle |-> selectedCircle,
                                      percentageText |-> selectedLabel,
                                      progressValue |-> progressValue ] >>
                     /\ UNCHANGED raised
    /\ UNCHANGED otherPages
    /\ UNCHANGED << domVars, rafQueue, now, lastFrame, calls, started,
                    chartVars >>

\* the timer of line 42 has run out
TimerDue == IF timer = << >> THEN FALSE ELSE now >= timer[1].due

\* callbacks are requested and this tick's frame has not been delivered
FrameDue == (rafQueue # << >> \/ numberQueue # << >>) /\ lastFrame < now

\* the callback of the setTimeout of line 42, when it is due
timerFires ==
    /\ TimerDue
    /\ timer' = << >>
    /\ animateProgress(timer[1].circle, timer[1].percentageText,
                       timer[1].progressValue, "init")
    /\ UNCHANGED otherPages
    /\ UNCHANGED << domVars, nodeVars, loaded, now, lastFrame, calls, raised,
                    chartVars >>

\* updateProgressCircle(newProgress) (lines 81-108)
updateProgressCircleBody(newProgress) ==
    IF ElementMissing
    THEN UNCHANGED << nodeVars, rafQueue, started, raised >>
    ELSE IF selectedContainer = 0
    THEN \* container.setAttribute of null throws (line 104)
         /\ raised' = TRUE
         /\ UNCHANGED << nodeVars, rafQueue, started >>
    ELSE /\ Store([ Nodes EXCEPT ![selectedContainer].level =
                                     newProgressLevel(newProgress) ])
         /\ animateProgress(selectedCircle, selectedLabel, newProgress,
                            "update")
         /\ UNCHANGED raised

\* An external call updateProgressCircle(newProgress), made after the page has
\* loaded and while the run it starts can end before the clock of the model
\* stops.
updateProgressCircle(newProgress) ==
    /\ loaded
    /\ calls < MaxUpdates
    /\ now + duration <= MaxTime
    /\ calls' = calls + 1
    /\ updateProgressCircleBody(newProgress)
    /\ UNCHANGED otherPages
    /\ UNCHANGED << domVars, loaded, timer, now, lastFrame, chartVars >>

\* the DOMContentLoaded handler of charts.js (lines 4-18), while the count-up
\* it starts can end before the clock of the model stops
initializeDashboardCharts ==
    /\ ~chartsLoaded
    /\ now + loadDuration <= MaxTime
    /\ chartsLoaded' = TRUE
    /\ numberQueue' = animateStatCards(Len(KeyOrder), numberQueue)
    /\ UNCHANGED otherPages
    /\ UNCHANGED << domVars, nodeVars, loaded, timer, rafQueue, now,
                    lastFrame, calls, started, raised, statText,
                    progressDefined, dataLog >>

\* A call updateDashboardData(newData) (lines 248-266), made after the page
\* has loaded and while the runs it starts can end before the clock of the
\* model stops.  The progress is handed over as a count of tenths.
updateDashboardData(newData) ==
    /\ chartsLoaded
    /\ progressDefined => loaded
    /\ Len(dataLog) < MaxUpdates
    /\ now + updateDuration <= MaxTime
    /\ now + duration <= MaxTime
    /\ numberQueue' = updateStatCards(newData, Len(KeyOrder), numberQueue)
    /\ \E short \in BOOLEAN :
        LET newProgress == calculateProgress(newData, short)
        IN  /\ dataLog' = Append(dataLog, [ newData |-> newData,
                                            newProgress |-> newProgress,
                                            time |-> now ])
            /\ IF progressDefined
               THEN updateProgressCircleBody(10 * newProgress)
               ELSE UNCHANGED << nodeVars, rafQueue, started, raised >>
    /\ UNCHANGED otherPages
    /\ UNCHANGED << domVars, loaded, timer, now, lastFrame, calls, statText,
                    chartsLoaded, progressDefined >>

\* animateVaultProgress (lines 16-57), called by the DOMContentLoaded handler
\* of the vault dashboard while its run can end before the clock of the model
\* stops
animateVaultProgress ==
    /\ ~loaded
    /\ now + vaultDuration <= MaxTime
    /\ loaded' = TRUE
    /\ IF selectedInput = 0 \/ selectedLabel = 0 \/ selectedCircle = 0
       THEN UNCHANGED << nodeVars, rafQueue, started >>
       ELSE LET targetProgress ==
                    OrZero(parseFloat(Nodes[selectedInput].inputValue))
            IN  /\ IF selectedContainer # 0
                   THEN Store([ Nodes EXCEPT ![selectedContainer].level =
                                                 vaultLevel(targetProgress) ])
                   ELSE UNCHANGED nodeVars
                /\ rafQueue' = Append(rafQueue,
                                      VaultRun(selectedCircle, selectedLabel,
                                               targetProgress))
                /\ started' = Append(started,
                                     [ kind |-> "vault",
                                       targetProgress |-> targetProgress,
                                       startTime |-> now ])
    /\ UNCHANGED otherPages
    /\ UNCHANGED << domVars, timer, now, lastFrame, calls, raised, chartVars >>

\* The host delivers a frame: every callback requested so far, of the
\* progress widget and of the stat cards, runs with the frame's timestamp,
\* which is later than the last frame's and not ahead of the clock.  It may
\* be behind the clock, and so behind the startTime a handler has read from
\* performance.now() since the frame began.
frame ==
    /\ rafQueue # << >> \/ numberQueue # << >>
    /\ \E currentTime \in (now - MaxLag)..now :
        /\ currentTime > lastFrame
        /\ LET d == runCallbacks(rafQueue, currentTime,
                                 [ nodes |-> Nodes,
                                   raised |-> raised,
                                   queue |-> << >> ])
               n == runNumberCallbacks(numberQueue, currentTime,
                                       [ texts |-> statText,
                                         queue |-> << >> ])
           IN  /\ Store(d.nodes)
               /\ raised' = d.raised
               /\ rafQueue' = d.queue
               /\ statText' = n.texts
               /\ numberQueue' = n.queue
        /\ lastFrame' = currentTime
    /\ UNCHANGED otherPages
    /\ UNCHANGED << domVars, loaded, timer, now, calls, started, chartsLoaded,
                    progressDefined, dataLog >>

\* Time passes.  The host is punctual: a timer runs in the tick it is due,
\* and while callbacks are requested every tick has a frame with the tick's
\* timestamp.
tick ==
    /\ now < MaxTime
    /\ ~TimerDue
    /\ ~FrameDue
    /\ now' = now + 1
    /\ UNCHANGED otherPages
    /\ UNCHANGED << domVars, nodeVars, loaded, timer, rafQueue, lastFrame,
                    calls, started, raised, chartVars >>

Next ==
    \/ initializeProgressCircle
    \/ timerFires
    \/ \E newProgress \in Targets : updateProgressCircle(newProgress)
    \/ frame
    \/ tick

Spec == Init /\ [][Next]_vars

\* one external call, over the wider range of values
NextValues ==
    \/ initializeProgressCircle
    \/ timerFires
    \/ \E newProgress \in Values :
           calls = 0 /\ updateProgressCircle(newProgress)
    \/ frame
    \/ tick

SpecValues == InitValues /\ [][NextValues]_vars

\* One external call, and a host that keeps working: time passes, a timer that
\* is due runs, and requested callbacks are delivered their frame.
NextFrames ==
    \/ initializeProgressCircle
    \/ timerFires
    \/ \E newProgress \in Targets :
           calls = 0 /\ updateProgressCircle(newProgress)
    \/ frame
    \/ tick

SpecFrames ==
    /\ Init
    /\ [][NextFrames]_vars
    /\ WF_vars(frame)
    /\ WF_vars(tick)
    /\ WF_vars(timerFires)

\* Another script takes the arc, the label, or both out of the document while
\* a run is in flight.  The run's closure keeps its references to the nodes
\* (lines 47-62): a node that is out of the document is still an object.
removeNodes ==
    /\ rafQueue # << >>
    /\ hasCircle /\ hasLabel
    /\ \E arc \in BOOLEAN, text \in BOOLEAN :
        /\ arc \/ text
        /\ hasCircle' = ~arc
        /\ hasLabel' = ~text
    /\ UNCHANGED otherPages
    /\ UNCHANGED << hasInput, hasContainer, inputValue, nodeVars, loaded,
                    timer, rafQueue, now, lastFrame, calls, started, raised,
                    chartVars >>

NextRemoval ==
    \/ initializeProgressCircle
    \/ timerFires
    \/ \E newProgress \in Targets :
           calls = 0 /\ updateProgressCircle(newProgress)
    \/ frame
    \/ tick
    \/ removeNodes

SpecRemoval == Init /\ [][NextRemoval]_vars

\* the handlers on a page with two progress widgets
SpecTwo == InitTwo /\ [][NextFrames]_vars

\* the vault dashboard, over the wider range of input texts
NextVault ==
    \/ animateVaultProgress
    \/ frame
    \/ tick

SpecVault == InitValues /\ [][NextVault]_vars

---------------------------------------------------------------------------
(* The dashboard: a complete progress widget and two stat cards *)

\* the texts of the stat cards as served: 12 accounts, and a dash where the
\* number of devices is not known
StatCards == [ accounts |-> << "1", "2" >>, devices |-> << "-" >> ]

\* arguments of updateDashboardData: progress 25, 75 and 100
DataSets ==
    { [ accounts |-> 4, devices |-> 5 ],
      [ accounts |-> 12, devices |-> 5, contacts |-> 5, estates |-> 3 ],
      [ accounts |-> 10, devices |-> 5, contacts |-> 5, estates |-> 3,
        documents |-> 5, family_knows |-> 3, care_relations |-> 1 ] }

InitDashboard ==
    /\ Page(InputTexts, { << >> })
    /\ hasInput /\ hasCircle /\ hasLabel /\ hasContainer
    /\ statText = StatCards
    /\ numberQueue = << >>
    /\ chartsLoaded = FALSE
    /\ progressDefined \in BOOLEAN
    /\ dataLog = << >>
    /\ NoOtherPages

NextDashboard ==
    \/ progressDefined /\ initializeProgressCircle
    \/ initializeDashboardCharts
    \/ timerFires
    \/ \E newData \in DataSets : updateDashboardData(newData)
    \/ frame
    \/ tick

SpecDashboard == InitDashboard /\ [][NextDashboard]_vars

---------------------------------------------------------------------------
(* calculateProgress over the maps of counts *)

\* every count from none to its target
CountMaps ==
    [ accounts : 0..criteria.accounts.target,
      devices : 0..criteria.devices.target,
      contacts : 0..criteria.contacts.target,
      estates : 0..criteria.estates.target,
      documents : 0..criteria.documents.target,
      family_knows : 0..criteria.family_knows.target,
      care_relations : 0..criteria.care_relations.target ]

\* maps with counts above their targets, and maps that lack keys
OtherMaps ==
    { [ accounts |-> 11, devices |-> 6, contacts |-> 6, estates |-> 4,
        documents |-> 6, family_knows |-> 4, care_relations |-> 2 ],
      [ accounts |-> 25, devices |-> 0, contacts |-> 9, estates |-> 1,
        documents |-> 40, family_knows |-> 3, care_relations |-> 0 ],
      << >>,
      [ accounts |-> 10 ],
      [ devices |-> 5, contacts |-> 5, estates |-> 3, documents |-> 5,
        family_knows |-> 3, care_relations |-> 1 ],
      [ accounts |-> 10, devices |-> 5, contacts |-> 5, estates |-> 3,
        documents |-> 5, family_knows |-> 3 ] }

\* a page without stat cards and without progress.js
InitCalc ==
    /\ Page(InputTexts, { << >> })
    /\ ~hasInput /\ ~hasCircle /\ ~hasLabel /\ ~hasContainer
    /\ statText = << >>
    /\ numberQueue = << >>
    /\ chartsLoaded = FALSE
    /\ progressDefined = FALSE
    /\ dataLog = << >>
    /\ NoOtherPages

\* one call of updateDashboardData
NextCalc ==
    \/ initializeDashboardCharts
    \/ /\ dataLog = << >>
       /\ \E newData \in CountMaps \cup OtherMaps :
              updateDashboardData(newData)

SpecCalc == InitCalc /\ [][NextCalc]_vars

---------------------------------------------------------------------------
(* What the claims speak of *)

\* no callback and no timer remains: the widget has settled
Settled == rafQueue = << >> /\ timer = << >>

\* the arc, the label and the container are in the document
AllPresent == hasCircle /\ hasLabel /\ hasContainer

\* the animateProgress invocation made last
LastStarted == started[Len(started)]

\* the indices of the runs started by external update calls
UpdateRuns == { i \in 1..Len(started) : started[i].kind = "update" }

\* the argument of the latest external update call that started a run
LastUpdate ==
    started[CHOOSE i \in UpdateRuns : \A j \in UpdateRuns : j <= i].targetProgress

\* round(v) of a value in tenths, halves rounding up
RoundTenths(v) == (v + 5) \div 10

\* round(v) followed by '%'
LabelFor(v) == ToString(RoundTenths(v)) \o "%"

\* circumference - circumference * v / 100, for v in tenths
OffsetFor(v) == circumference - (circumference \div 1000) * v

\* the level of the data model: low below 40, medium in [40, 70), high in
\* [70, 100), complete at 100
StepLevel(v) ==
    IF v < 400 THEN "low"
    ELSE IF v < 700 THEN "medium"
    ELSE IF v < 1000 THEN "high"
    ELSE "complete"

\* the texts of the whole percentages lo..hi
Percentages(lo, hi) == { ToString(n) \o "%" : n \in lo..hi }

\* the whole percentage a label text shows
Shown(text) == CHOOSE n \in -200..200 : ToString(n) \o "%" = text

---------------------------------------------------------------------------
\* C1: for every target v in [0,100], once the run started last has had its
\* frame with elapsed >= duration and nothing remains scheduled, the label
\* reads round(v) followed by '%' and the stroke offset is
\* circumference - circumference * v / 100.
C1_FinalValuesExact ==
    (Settled /\ started # << >> /\ LastStarted.targetProgress \in 0..1000)
        => /\ label = LabelFor(LastStarted.targetProgress)
           /\ strokeDashoffset = << OffsetFor(LastStarted.targetProgress) >>

\* an update call with 72.5 has settled at 73%
C1_Settled ==
    /\ Settled
    /\ started # << >>
    /\ LastStarted.kind = "update"
    /\ LastStarted.targetProgress = 725
    /\ label = "73%"

\* C2: when updateProgressCircle(30) is followed by updateProgressCircle(90)
\* before the first run has completed, and these are the last runs started,
\* the settled widget reads 90% with the offset of 90, not 30%.
C2_SupersedingRun ==
    LET n == Len(started)
    IN  ( /\ Settled
          /\ n >= 2
          /\ started[n - 1].kind = "update"
          /\ started[n - 1].targetProgress = 300
          /\ started[n].kind = "update"
          /\ started[n].targetProgress = 900
          /\ started[n].startTime - started[n - 1].startTime < duration )
        => /\ label = "90%"
           /\ label # "30%"
           /\ strokeDashoffset = << OffsetFor(900) >>

\* 30 then 90, the second call made while the first run was in flight, settled
C2_Superseded ==
    LET n == Len(started)
    IN  /\ Settled
        /\ n >= 2
        /\ started[n - 1].kind = "update"
        /\ started[n - 1].targetProgress = 300
        /\ started[n].kind = "update"
        /\ started[n].targetProgress = 900
        /\ started[n].startTime - started[n - 1].startTime \in 1..(duration - 1)
        /\ label = "90%"

\* C3: whenever an external update call with target w has been made after
\* construction, the settled widget displays w and the level is level(w).
C3_LastWriterWins ==
    (Settled /\ UpdateRuns # { })
        => /\ label = LabelFor(LastUpdate)
           /\ level = StepLevel(LastUpdate)

\* C4: once a newer run has executed its first frame, no older run writes or
\* requests a frame: no run that has an older run before it in the queue has
\* executed a second frame, in which the older run would have written again.
C4_OneActiveRun ==
    \A j \in 2..Len(rafQueue) : rafQueue[j].frames < 2

\* C5: the effective target of a numeric value is clamped to [0,100]: after
\* every frame whose timestamp is not earlier than the start of the runs in
\* flight, and at every settle, the label is within 0%..100% and the offset
\* within [0, circumference].
C5_Clamped ==
    ( /\ \A i \in 1..Len(started) : started[i].targetProgress # NaN
      /\ \A i \in 1..Len(rafQueue) : rafQueue[i].startTime <= lastFrame )
        => /\ label \in Percentages(0, 100)
           /\ strokeDashoffset # << >>
                  => strokeDashoffset[1] \in 0..circumference

\* C6: the level attribute is the step function of the value it was computed
\* from (low below 40, medium in [40,70), high in [70,100), complete at 100),
\* and the construction path, the update path and the vault dashboard compute
\* the same level for the same value.
C6_LevelStepFunction ==
    /\ \A v \in Values \ { NaN } :
           v <= 1000 => /\ progressLevel(v) = StepLevel(v)
                        /\ newProgressLevel(v) = StepLevel(v)
                        /\ vaultLevel(v) = StepLevel(v)
    /\ \A v \in Values : /\ progressLevel(v) = newProgressLevel(v)
                         /\ progressLevel(v) = vaultLevel(v)
    /\ LET source == IF UpdateRuns # { } THEN LastUpdate
                     ELSE OrZero(parseFloat(inputValue))
       IN  (level # "" /\ source # NaN /\ source <= 1000)
               => level = StepLevel(source)

\* an update call with 69.9 over a page constructed with 39.9
C6_LevelWritten ==
    /\ inputValue = << "3", "9", ".", "9" >>
    /\ UpdateRuns # { }
    /\ LastUpdate = 699
    /\ level = "medium"

\* C7: updateProgressCircle(50), called once or twice in immediate
\* succession, settles in the same state: label 50%, the offset of 50, level
\* medium.
C7_Idempotent ==
    ( /\ Settled
      /\ started # << >>
      /\ LastStarted.kind = "update"
      /\ LastStarted.targetProgress = 500 )
        => /\ label = "50%"
           /\ strokeDashoffset = << OffsetFor(500) >>
           /\ level = "medium"

\* two calls with 50 in the same tick have settled
C7_CalledTwice ==
    LET n == Len(started)
    IN  /\ Settled
        /\ n >= 2
        /\ started[n] = started[n - 1]
        /\ started[n].kind = "update"
        /\ started[n].targetProgress = 500
        /\ label = "50%"

\* C8: when the arc, the label or the container is absent, neither the
\* construction nor a later update call raises, schedules a frame or a timer,
\* or changes the arc, the label or the level.
C8_MissingElementNoOp ==
    (~hasCircle \/ ~hasLabel \/ ~hasContainer)
        => /\ ~raised
           /\ strokeDasharray = << >>
           /\ strokeDashoffset = << >>
           /\ label = templateLabel
           /\ level = ""
           /\ rafQueue = << >>
           /\ timer = << >>
           /\ started = << >>

\* constructed without the arc element, and updated afterwards
C8_UpdatedWithoutArc ==
    /\ ~hasCircle
    /\ hasInput /\ hasLabel /\ hasContainer
    /\ loaded
    /\ calls >= 1

\* C9: a run started by an update call while the widget displays d shows, in
\* every frame not earlier than its start, a value between d and its target.
C9_InterpolatesFromShown ==
    ( /\ Len(rafQueue) = 1
      /\ rafQueue[1].kind = "update"
      /\ rafQueue[1].frames >= 1
      /\ lastFrame >= rafQueue[1].startTime )
        => LET d == Shown(rafQueue[1].shown)
               t == RoundTenths(rafQueue[1].targetProgress)
           IN  label \in Percentages(Min(d, t), IF d >= t THEN d ELSE t)

C11_LevelOfCurrentTarget ==
    ( /\ started # << >>
      /\ rafQueue # << >>
      /\ rafQueue[Len(rafQueue)].frames >= 1 )
        => level = StepLevel(LastStarted.targetProgress)

\* C12: a target that is not a number is treated as 0 on both entry paths: a
\* construction from an input that is not numeric, and an update call with an
\* argument that is not a number, each settle with the label 0%, the arc empty
\* and the level low, and the label never displays a value that is not a
\* number.
C12_NonNumericIsZero ==
    /\ label # "NaN%"
    /\ ( /\ Settled
         /\ started # << >>
         /\ \/ /\ UpdateRuns = { }
               /\ parseFloat(inputValue) = NaN
            \/ /\ LastStarted.kind = "update"
               /\ LastStarted.targetProgress = NaN )
           => /\ label = "0%"
              /\ strokeDashoffset = << circumference >>
              /\ level = "low"

\* the run started i-th has had a frame with elapsed >= duration
Ended(i) == lastFrame - started[i].startTime >= duration

\* a callback of a run started at time t is requested
InFlight(t) == \E i \in 1..Len(rafQueue) : rafQueue[i].startTime = t

\* C13: every run terminates.  While the host keeps delivering frames with
\* increasing timestamps, a run started early enough for the clock to reach
\* its end has a frame with elapsed >= duration, after which it requests no
\* frame; at every moment exactly one callback is requested for each run that
\* has not had that frame and none for a run that has, and when the last run
\* has ended the label holds its final value.
C13_EveryRunTerminates ==
    /\ [](Len(rafQueue) = Cardinality({ i \in 1..Len(started) : ~Ended(i) }))
    /\ []((Settled /\ started # << >>)
              => label = LabelFor(LastStarted.targetProgress))
    /\ \A t \in 0..(MaxTime - duration) : InFlight(t) ~> ~InFlight(t)

\* two overlapping runs have both had their last frame
C13_RunsEnded ==
    /\ Len(started) = 2
    /\ started[2].startTime - started[1].startTime \in 1..(duration - 1)
    /\ Ended(1) /\ Ended(2)
    /\ rafQueue = << >>

\* C14: when the arc or the label has been taken out of the document while a
\* run is in flight, a later frame writes nothing to the node taken out,
\* requests no further frame and does not raise.
C14_RemovedNodesNotWritten ==
    [][ (lastFrame' # lastFrame /\ (~hasCircle \/ ~hasLabel))
            => /\ ~hasCircle => strokeDashoffset' = strokeDashoffset
               /\ ~hasLabel => label' = label
               /\ rafQueue' = << >>
               /\ raised' = raised ]_vars

\* the target the construction reads from the text of an input element
TargetOf(text) == OrZero(parseFloat(text))

LastData == dataLog[Len(dataLog)]

\* a map of counts with the count of key raised by one
Raised(counts, key) ==
    [ k \in DOMAIN counts \cup { key } |->
        IF k = key THEN CountOf(counts, key) + 1 ELSE counts[k] ]

\* every count of a map has reached its target
AllReached(counts) ==
    \A key \in DOMAIN criteria : CountOf(counts, key) >= criteria[key].target

\* the results calculateProgress can give for a map of counts
Results(counts) == { calculateProgress(counts, short) : short \in BOOLEAN }

\* C18: for every map of non-negative counts, a missing key counting as 0,
\* calculateProgress returns an integer in [0,100]; raising one count never
\* lowers the result; the result is 100 exactly when every count has reached
\* its target; and a count at or above its target adds nothing when raised.
C18_ProgressOfCounts ==
    dataLog # << >> =>
        LET counts == LastData.newData
            result == LastData.newProgress
        IN  /\ result \in 0..100
            /\ \A key \in DOMAIN criteria :
                   IF CountOf(counts, key) >= criteria[key].target
                   THEN \* the raised count is capped as the count is
                        Results(Raised(counts, key)) = Results(counts)
                   ELSE \A higher \in Results(Raised(counts, key)) :
                            higher >= result /\ higher <= 100
            /\ result = 100 <=> AllReached(counts)

\* computed for counts above their targets, and for a map that lacks keys
C18_Computed ==
    /\ dataLog # << >>
    /\ \/ /\ DOMAIN LastData.newData = DOMAIN criteria
          /\ \A key \in DOMAIN criteria :
                 LastData.newData[key] > criteria[key].target
          /\ LastData.newProgress = 100
       \/ /\ DOMAIN LastData.newData = { "accounts" }
          /\ LastData.newProgress = 25

\* C16: updateDashboardData(newData) calls updateProgressCircle exactly once,
\* with calculateProgress(newData), whenever it is defined, so that the
\* settled widget reads that value and holds that value's level; when it is
\* not defined the call is skipped without raising.
C16_ProgressFromData ==
    /\ progressDefined =>
           /\ Cardinality(UpdateRuns) = Len(dataLog)
           /\ \A i \in UpdateRuns :
                  \E j \in 1..Len(dataLog) :
                      /\ dataLog[j].time = started[i].startTime
                      /\ dataLog[j].newProgress
                             \in Results(dataLog[j].newData)
                      /\ started[i].targetProgress
                             = 10 * dataLog[j].newProgress
           /\ (Settled /\ dataLog # << >>)
                  => /\ label = ToString(LastData.newProgress) \o "%"
                     /\ level = StepLevel(10 * LastData.newProgress)
    /\ ~progressDefined =>
           /\ started = << >>
           /\ ~raised
           /\ label = templateLabel

\* C19: after updateDashboardData(newData), once every number animation has
\* finished, each stat card whose key is in newData displays newData[key],
\* also when the call is made during the count-up on load or during the
\* animation of an earlier call.
C19_CardsShowNewData ==
    (dataLog # << >> /\ numberQueue = << >>)
        => \A key \in DOMAIN LastData.newData \cap DOMAIN statText :
               statText[key] = NumberText(LastData.newData[key])

\* C17: the last frame of the vault's run (elapsed >= 2000 ms) writes the
\* exact final values of its target v: the label round(v) followed by '%' and
\* the offset circumference - circumference * v / 100, computed from v itself
\* and not from the rounded value, and no further frame is requested.
C17_VaultFinalValues ==
    ( /\ started # << >>
      /\ LastStarted.kind = "vault"
      /\ LastStarted.targetProgress \in 0..1000
      /\ lastFrame - LastStarted.startTime >= vaultDuration )
        => /\ rafQueue = << >>
           /\ label = LabelFor(LastStarted.targetProgress)
           /\ strokeDashoffset = << OffsetFor(LastStarted.targetProgress) >>

\* one run has been started, its target is in [0,100], and it has had a frame
OneRunShown ==
    /\ Len(started) = 1
    /\ started[1].targetProgress \in 0..1000
    /\ rafQueue = << >> \/ rafQueue[1].frames >= 1

\* C20: on every frame of a run with target v in [0,100], whatever timestamp
\* the host delivers, also one earlier than the start time the run has
\* recorded, the label shows a value in [0, round(v)] and the offset lies in
\* [circumference - circumference * v / 100, circumference].
C20_WithinBounds ==
    OneRunShown
        => /\ label \in Percentages(0, RoundTenths(started[1].targetProgress))
           /\ strokeDashoffset # << >>
           /\ strokeDashoffset[1]
                  \in OffsetFor(started[1].targetProgress)..circumference

\* C20, second half: within one run the value shown never decreases from one
\* frame to the next.
C20_NeverDecreases ==
    [][ (OneRunShown /\ started' = started /\ lastFrame' # lastFrame)
            => Shown(label') >= Shown(label) ]_vars

---------------------------------------------------------------------------
(* The payment form of the services page (services/js/index.js).  The      *)
(* submit handler is an async function: between two awaits it runs without *)
(* interruption, and each await is a point where it waits for the host to  *)
(* settle a promise.  What the two endpoints and the payment SDK answer is *)
(* not in the repository: every reply the handler distinguishes is chosen  *)
(* freely.                                                                 *)

MaxSubmits == 2

Tiers == { "basic", "premium" }

\* the messages of the errors the handler catches or is handed
Message ==
    [ noToken |-> "Cannot read properties of null (reading 'value')",
      fetch |-> "Failed to fetch",
      json |-> "Unexpected token '<'",
      data |-> "Invalid tier",
      secret |-> "Missing value for stripe.confirmCardPayment intent secret",
      card |-> "Your card was declined.",
      confirmation |-> "Payment confirmation failed",
      validation |-> "Your card number is incomplete." ]

\* what the SDK resolves with when it reports no error: the status of the
\* payment intent
IntentStatuses == { "succeeded", "processing", "requires_capture" }

Request(to) == [ to |-> to, reply |-> "" ]

\* the reply of the call under way is known
Replied(reply) ==
    [ requests EXCEPT ![Len(requests)] = [ @ EXCEPT !.reply = reply ] ]

paymentRest == << hasToken, modalDisplay, selectedTier, submits >>

\* the handler returns, having written nothing
returns ==
    /\ handler' = "idle"
    /\ completed' = completed + 1
    /\ UNCHANGED << submitDisabled, buttonTextDisplay, spinnerDisplay,
                    cardErrors, location >>

\* the catch block and the branch of result.error: the error is shown, the
\* button enabled, the spinner hidden
reenables(message) ==
    /\ cardErrors' = message
    /\ submitDisabled' = FALSE
    /\ buttonTextDisplay' = "inline"
    /\ spinnerDisplay' = "none"
    /\ handler' = "idle"
    /\ completed' = completed + 1
    /\ UNCHANGED location

\* the handler goes on to its next await
awaits(promise) ==
    /\ handler' = promise
    /\ UNCHANGED << submitDisabled, buttonTextDisplay, spinnerDisplay,
                    cardErrors, location, completed >>

openPaymentModal(tier) ==
    /\ location = "services"
    /\ modalDisplay' = "block"
    /\ selectedTier' = tier
    /\ UNCHANGED << handler, submitDisabled, buttonTextDisplay,
                    spinnerDisplay, cardErrors, location, hasToken, requests,
                    submits, completed >>
    /\ UNCHANGED besidesPayment

closePaymentModal ==
    /\ location = "services"
    /\ modalDisplay = "block"
    /\ modalDisplay' = "none"
    /\ cardErrors' = ""
    /\ UNCHANGED << handler, submitDisabled, buttonTextDisplay,
                    spinnerDisplay, location, hasToken, selectedTier,
                    requests, submits, completed >>
    /\ UNCHANGED besidesPayment

\* the change event of the card element
cardChange(error) ==
    /\ location = "services"
    /\ cardErrors' = IF error THEN Message.validation ELSE ""
    /\ UNCHANGED << handler, submitDisabled, buttonTextDisplay,
                    spinnerDisplay, location, hasToken, modalDisplay,
                    selectedTier, requests, submits, completed >>
    /\ UNCHANGED besidesPayment

\* the submit event: the handler up to its first await.  A form whose
\* submit button is disabled is not submitted.
submit ==
    /\ location = "services"
    /\ handler = "idle"
    /\ ~submitDisabled
    /\ submits < MaxSubmits
    /\ submits' = submits + 1
    /\ IF hasToken
       THEN /\ submitDisabled' = TRUE
            /\ buttonTextDisplay' = "none"
            /\ spinnerDisplay' = "block"
            /\ requests' = << Request("create_payment_intent") >>
            /\ handler' = "fetch create_payment_intent"
            /\ UNCHANGED << cardErrors, location, completed >>
       ELSE /\ requests' = << >>
            /\ reenables(Message.noToken)
    /\ UNCHANGED << hasToken, modalDisplay, selectedTier >>
    /\ UNCHANGED besidesPayment

\* the fetch of the create-intent endpoint settles
fetchIntentSettles ==
    /\ handler = "fetch create_payment_intent"
    /\ \E fulfilled \in BOOLEAN :
        IF fulfilled
        THEN /\ awaits("json create_payment_intent")
             /\ UNCHANGED requests
        ELSE /\ reenables(Message.fetch)
             /\ requests' = Replied("failed")
    /\ UNCHANGED paymentRest
    /\ UNCHANGED besidesPayment

\* response.json() settles: no JSON, or data with an error, with a client
\* secret, or with neither
intentJsonSettles ==
    /\ handler = "json create_payment_intent"
    /\ \E data \in { "invalid", "error", "client_secret", "empty" } :
        CASE data = "invalid" ->
                 /\ reenables(Message.json)
                 /\ requests' = Replied(data)
          [] data = "error" ->
                 /\ reenables(Message.data)
                 /\ requests' = Replied(data)
          [] data = "empty" ->
                 /\ reenables(Message.secret)
                 /\ requests' = Replied(data)
          [] OTHER ->
                 /\ awaits("confirmCardPayment")
                 /\ requests' = Append(Replied(data),
                                       Request("confirmCardPayment"))
    /\ UNCHANGED paymentRest
    /\ UNCHANGED besidesPayment

\* stripe.confirmCardPayment settles: rejected, or resolved with an error or
\* with a payment intent
confirmCardPaymentSettles ==
    /\ handler = "confirmCardPayment"
    /\ \E result \in { "rejected", "error" } \cup IntentStatuses :
        CASE result = "rejected" ->
                 /\ reenables(Message.secret)
                 /\ requests' = Replied(result)
          [] result = "error" ->
                 /\ reenables(Message.card)
                 /\ requests' = Replied(result)
          [] result = "succeeded" ->
                 /\ awaits("fetch confirm_payment")
                 /\ requests' = Append(Replied(result),
                                       Request("confirm_payment"))
          [] OTHER ->
                 /\ returns
                 /\ requests' = Replied(result)
    /\ UNCHANGED paymentRest
    /\ UNCHANGED besidesPayment

\* the fetch of the confirm endpoint settles
fetchConfirmSettles ==
    /\ handler = "fetch confirm_payment"
    /\ \E fulfilled \in BOOLEAN :
        IF fulfilled
        THEN /\ awaits("json confirm_payment")
             /\ UNCHANGED requests
        ELSE /\ reenables(Message.fetch)
             /\ requests' = Replied("failed")
    /\ UNCHANGED paymentRest
    /\ UNCHANGED besidesPayment

\* confirmResponse.json() settles
confirmJsonSettles ==
    /\ handler = "json confirm_payment"
    /\ \E confirmData \in { "invalid", "success", "failure" } :
        CASE confirmData = "invalid" ->
                 /\ reenables(Message.json)
                 /\ requests' = Replied(confirmData)
          [] confirmData = "success" ->
                 /\ location' = "account_dashboard"
                 /\ handler' = "idle"
                 /\ completed' = completed + 1
                 /\ requests' = Replied(confirmData)
                 /\ UNCHANGED << submitDisabled, buttonTextDisplay,
                                 spinnerDisplay, cardErrors >>
          [] OTHER ->
                 /\ reenables(Message.confirmation)
                 /\ requests' = Replied(confirmData)
    /\ UNCHANGED paymentRest
    /\ UNCHANGED besidesPayment

\* the services page: no progress widget, no stat cards
InitPayment ==
    /\ Page({ << >> }, { << >> })
    /\ ~hasInput /\ ~hasCircle /\ ~hasLabel /\ ~hasContainer
    /\ NoCharts
    /\ PaymentForm(BOOLEAN)
    /\ Navbar({ "index.js" }, { FALSE }, { "false" })
    /\ Carousel({ 0 }, { TRUE })
    /\ BarChart({ << >> })

NextPayment ==
    \/ \E tier \in Tiers : openPaymentModal(tier)
    \/ closePaymentModal
    \/ \E error \in BOOLEAN : cardChange(error)
    \/ submit
    \/ fetchIntentSettles
    \/ intentJsonSettles
    \/ confirmCardPaymentSettles
    \/ fetchConfirmSettles
    \/ confirmJsonSettles

\* every promise the handler awaits is settled by the host
SpecPayment ==
    /\ InitPayment
    /\ [][NextPayment]_vars
    /\ WF_vars(fetchIntentSettles)
    /\ WF_vars(intentJsonSettles)
    /\ WF_vars(confirmCardPaymentSettles)
    /\ WF_vars(fetchConfirmSettles)
    /\ WF_vars(confirmJsonSettles)

\* the submission under way or last completed has redirected the browser
Redirected ==
    /\ location = "account_dashboard"
    /\ Len(requests) = 3
    /\ requests[1].to = "create_payment_intent"
    /\ requests[2] = [ to |-> "confirmCardPayment", reply |-> "succeeded" ]
    /\ requests[3] = [ to |-> "confirm_payment", reply |-> "success" ]

\* the form can be submitted again and says why
Reenabled ==
    /\ location = "services"
    /\ ~submitDisabled
    /\ spinnerDisplay = "none"
    /\ cardErrors # ""

\* C21: a submission ends in exactly one of two outcomes: the browser is
\* redirected to the account dashboard, after the SDK reported the status
\* succeeded and the confirm endpoint returned success, the endpoints called
\* in the order create-intent, SDK, confirm; or the submit button is enabled
\* again, the spinner hidden and an error message shown.  No submission ends
\* with the button disabled, the spinner showing and no redirect.
C21_TwoOutcomes ==
    [][ completed' # completed
            => /\ Redirected' \/ Reenabled'
               /\ ~(Redirected' /\ Reenabled') ]_vars

\* C21, the eventual half: every submission ends
C21_SubmissionEnds ==
    \A n \in 1..MaxSubmits : (submits = n) ~> (completed = n)

---------------------------------------------------------------------------
(* The navbar (baseapp/js/index.js lines 88-152 and baseapp/js/mobile.js,  *)
(* which is the same code without the site title and the margin class).    *)

MaxNavEvents == 4

\* updateNavbar(e) with e.matches = isMobile
updateNavbar(isMobile) ==
    /\ inert' = updated(isMobile).inert
    /\ dropdownDisplay' = updated(isMobile).dropdownDisplay
    /\ classesDisplay' = updated(isMobile).classesDisplay
    /\ siteTitleDisplay' = updated(isMobile).siteTitleDisplay
    /\ marginLeft' = updated(isMobile).marginLeft

\* the media query's change event: the viewport crossed the breakpoint
mediaChange ==
    /\ Len(navLog) < MaxNavEvents
    /\ mediaMatches' = ~mediaMatches
    /\ updateNavbar(mediaMatches')
    /\ navLog' = Append(navLog, "change")
    /\ UNCHANGED << script, show, ariaExpanded >>
    /\ UNCHANGED besidesNavbar

openSidebar ==
    /\ Len(navLog) < MaxNavEvents
    /\ show' = TRUE
    /\ ariaExpanded' = "true"
    /\ inert' = FALSE
    /\ navLog' = Append(navLog, "openSidebar")
    /\ UNCHANGED << script, mediaMatches, dropdownDisplay, classesDisplay,
                    siteTitleDisplay, marginLeft >>
    /\ UNCHANGED besidesNavbar

closeSidebar ==
    /\ Len(navLog) < MaxNavEvents
    /\ show' = FALSE
    /\ ariaExpanded' = "false"
    /\ inert' = TRUE
    /\ navLog' = Append(navLog, "closeSidebar")
    /\ UNCHANGED << script, mediaMatches, dropdownDisplay, classesDisplay,
                    siteTitleDisplay, marginLeft >>
    /\ UNCHANGED besidesNavbar

\* a page with the navbar, opened in a wide or a narrow viewport
InitNavbar ==
    /\ Page({ << >> }, { << >> })
    /\ ~hasInput /\ ~hasCircle /\ ~hasLabel /\ ~hasContainer
    /\ NoCharts
    /\ PaymentForm({ TRUE })
    /\ Navbar({ "index.js", "mobile.js" }, BOOLEAN, { "", "false" })
    /\ Carousel({ 0 }, { TRUE })
    /\ BarChart({ << >> })

NextNavbar ==
    \/ mediaChange
    \/ openSidebar
    \/ closeSidebar

SpecNavbar == InitNavbar /\ [][NextNavbar]_vars

\* C22: after any sequence of openSidebar, closeSidebar and media-query
\* change events, on desktop the navbar is not inert, on mobile it is inert
\* exactly when it does not have the class show, and aria-expanded of the
\* open button is 'true' exactly when the navbar has the class show.
C22_InertMatchesUse ==
    /\ ~mediaMatches => ~inert
    /\ mediaMatches => (inert <=> ~show)
    /\ (ariaExpanded = "true") <=> show

---------------------------------------------------------------------------
(* The carousel of the services page (services/js/index.js lines 1-72).    *)
(* Slides and dots are numbered from 0 as in the arrays slides and dots;   *)
(* the page is taken to carry as many dots as slides.                      *)

MaxClicks == 3

\* getBoundingClientRect().width of the first slide, in px
slideWidth == 300

\* slide.style.left of the slide at index, in px
left(index) == slideWidth * index

\* the index in its array of the first element carrying the class, as
\* document.querySelector and indexOf find it: -1 when there is none
indexOfCurrent(class) ==
    IF \A i \in Indices : ~class[i] THEN -1
    ELSE CHOOSE i \in Indices :
             class[i] /\ \A j \in Indices : class[j] => i <= j

nextIndexStaying(currentIndex) ==
    IF currentIndex + 1 < NumSlides THEN currentIndex + 1 ELSE currentIndex

nextIndex(currentIndex) == (currentIndex + 1) % NumSlides

prevIndex(currentIndex) == (currentIndex - 1 + NumSlides) % NumSlides

\* moveToSlide and updateDots, from the current slide and dot to those at
\* targetIndex; with no current slide or dot the handler throws where it
\* first uses it, after the transform is written
move(click, targetIndex) ==
    LET slide == indexOfCurrent(currentSlide)
        dot == indexOfCurrent(currentDot)
    IN  /\ Len(clickLog) < MaxClicks
        /\ clickLog' = Append(clickLog,
                              [ click |-> click,
                                target |-> targetIndex,
                                slides |-> currentSlide,
                                dots |-> currentDot ])
        /\ transform' = << left(targetIndex) >>
        /\ IF slide = -1
           THEN UNCHANGED << currentSlide, ariaHidden, currentDot,
                             ariaSelected >>
           ELSE /\ currentSlide' = [ [ currentSlide EXCEPT ![slide] = FALSE ]
                                         EXCEPT ![targetIndex] = TRUE ]
                /\ ariaHidden' = [ [ ariaHidden EXCEPT ![slide] = "true" ]
                                       EXCEPT ![targetIndex] = "false" ]
                /\ IF dot = -1
                   THEN UNCHANGED << currentDot, ariaSelected >>
                   ELSE /\ currentDot' =
                               [ [ currentDot EXCEPT ![dot] = FALSE ]
                                     EXCEPT ![targetIndex] = TRUE ]
                        /\ ariaSelected' =
                               [ [ ariaSelected EXCEPT ![dot] = "false" ]
                                     EXCEPT ![targetIndex] = "true" ]
        /\ UNCHANGED besidesCarousel

\* click on the next button
clickNext == move("next", nextIndex(indexOfCurrent(currentSlide)))

\* click on the previous button
clickPrev == move("prev", prevIndex(indexOfCurrent(currentSlide)))

\* click inside the dots' container: on the dot at targetIndex, or beside
\* the dots (targetIndex -1), where closest('button') finds nothing
clickDots(targetIndex) ==
    IF targetIndex = -1
    THEN UNCHANGED vars
    ELSE move("dot", targetIndex)

\* the services page with the carousel
InitCarousel ==
    /\ Page({ << >> }, { << >> })
    /\ ~hasInput /\ ~hasCircle /\ ~hasLabel /\ ~hasContainer
    /\ NoCharts
    /\ PaymentForm({ TRUE })
    /\ Navbar({ "index.js" }, { FALSE }, { "false" })
    /\ Carousel(Indices, BOOLEAN)
    /\ BarChart({ << >> })

NextCarousel ==
    \/ clickNext
    \/ clickPrev
    \/ \E targetIndex \in Indices \cup { -1 } : clickDots(targetIndex)

SpecCarousel == InitCarousel /\ [][NextCarousel]_vars

\* the indices carrying a class
Carrying(class) == { i \in Indices : class[i] }

\* the slides a click has left: those current before a click that moved to
\* another one
LeftByMove ==
    { i \in Indices :
          \E k \in 1..Len(clickLog) :
              clickLog[k].slides[i] /\ clickLog[k].target # i }

\* C23: after any sequence of next, previous and dot clicks, exactly one
\* slide carries current-slide, its aria-hidden false once a click has moved
\* to it, every other slide that a move has left has aria-hidden true;
\* exactly one dot carries current-dot, at the same index; next from the last
\* slide goes to the first and previous from the first to the last; and
\* next followed by previous restores which slide and which dot are current.
C23_OneCurrentSlideAndDot ==
    /\ Cardinality(Carrying(currentSlide)) = 1
    /\ Carrying(currentDot) = Carrying(currentSlide)
    /\ clickLog # << >> =>
           /\ Carrying(currentSlide) = { clickLog[Len(clickLog)].target }
           /\ ariaHidden[clickLog[Len(clickLog)].target] = "false"
           /\ transform = << left(clickLog[Len(clickLog)].target) >>
    /\ \A i \in LeftByMove \ Carrying(currentSlide) : ariaHidden[i] = "true"
    /\ \A k \in 1..Len(clickLog) :
           /\ (clickLog[k].click = "next"
                   /\ clickLog[k].slides[NumSlides - 1])
                  => clickLog[k].target = 0
           /\ (clickLog[k].click = "prev" /\ clickLog[k].slides[0])
                  => clickLog[k].target = NumSlides - 1
    /\ ( /\ Len(clickLog) >= 2
         /\ clickLog[Len(clickLog) - 1].click = "next"
         /\ clickLog[Len(clickLog)].click = "prev" )
           => /\ currentSlide = clickLog[Len(clickLog) - 1].slides
              /\ currentDot = clickLog[Len(clickLog) - 1].dots

\* a next click from the last slide has been followed by a previous click
C23_WrappedAndBack ==
    /\ Len(clickLog) >= 2
    /\ clickLog[Len(clickLog) - 1].click = "next"
    /\ clickLog[Len(clickLog) - 1].slides[NumSlides - 1]
    /\ clickLog[Len(clickLog)].click = "prev"
    /\ currentSlide[NumSlides - 1]

---------------------------------------------------------------------------
(* The bar chart (bargraph.js, src/unnamed/part_000).  One container,      *)
(* whose chart has NumBars bars.  Time is counted in ticks of 100 ms, the  *)
(* stagger between two bars; timers fire in the tick they are due.         *)

NumBars == 2
MaxBarTime == 4
MaxCreates == 1

\* the stagger between two bars and the delay of createBarChart's timer
stagger == 1

\* the values of the items of a chart's data
BarValues == { 0, 2, 4 }

BarData == [ 1..NumBars -> BarValues ]

\* Math.max(...data.map(d => d.value))
maxValue(data) ==
    CHOOSE m \in BarValues :
        /\ \E i \in 1..NumBars : data[i] = m
        /\ \A i \in 1..NumBars : data[i] <= m

\* the percentage of an item, as createBarChart and updateBarChart
\* compute it
percentage(data, index) ==
    IF maxValue(data) > 0 THEN (data[index] * 100) \div maxValue(data) ELSE 0

\* animateBarChart(chartElement): one timer per bar, each with the
\* data-value read now
animateBarChart(chart, fills) ==
    { [ due |-> barNow + (index - 1) * stagger,
        chart |-> chart,
        index |-> index,
        targetWidth |-> fills[index].dataValue ] : index \in 1..Len(fills) }

\* the DOMContentLoaded handler: the chart the document holds is animated
\* and observed
initializeBarCharts ==
    /\ ~barsLoaded
    /\ barsLoaded' = TRUE
    /\ IF barFills = << >>
       THEN UNCHANGED << barTimers, observed >>
       ELSE /\ barTimers' = barTimers \cup animateBarChart(chartDiv, barFills)
            /\ observed' = { chartDiv }
    /\ UNCHANGED << barFills, chartDiv, animated, barNow, lastUpdate >>
    /\ UNCHANGED besidesBars

\* the observer's callback for an observed chart that intersects the
\* viewport and is not marked as animated
observerCallback ==
    /\ chartDiv \in observed
    /\ ~animated
    /\ barTimers' = barTimers \cup animateBarChart(chartDiv, barFills)
    /\ animated' = TRUE
    /\ UNCHANGED << barFills, chartDiv, observed, barNow, barsLoaded,
                    lastUpdate >>
    /\ UNCHANGED besidesBars

\* createBarChart(containerId, data): the container's content is replaced
\* by a new chart, animated by a timer
createBarChart(data) ==
    /\ chartDiv < MaxCreates
    /\ barNow + stagger <= MaxBarTime
    /\ chartDiv' = chartDiv + 1
    /\ barFills' = [ index \in 1..NumBars |->
                         Fill(percentage(data, index), << 0 >>) ]
    /\ barTimers' = barTimers \cup
                        { [ due |-> barNow + stagger,
                            chart |-> chartDiv',
                            index |-> 0,
                            targetWidth |-> 0 ] }
    /\ lastUpdate' = << >>
    /\ UNCHANGED << observed, animated, barNow, barsLoaded >>
    /\ UNCHANGED besidesBars

\* updateBarChart(containerId, newData), newData with an item per bar
updateBarChart(newData) ==
    /\ barFills # << >>
    /\ lastUpdate = << >>
    /\ barFills' = [ index \in 1..NumBars |->
                         Fill(barFills[index].dataValue,
                              << percentage(newData, index) >>) ]
    /\ lastUpdate' = << newData >>
    /\ UNCHANGED << chartDiv, observed, animated, barTimers, barNow,
                    barsLoaded >>
    /\ UNCHANGED besidesBars

\* a timer that is due fires: the one of createBarChart calls
\* animateBarChart, the one of a bar writes the bar's width; the bars of a
\* chart that createBarChart has removed are no longer in the container
barTimerFires ==
    \E t \in barTimers :
        /\ t.due <= barNow
        /\ \A u \in barTimers : t.due <= u.due
        /\ IF t.chart # chartDiv
           THEN /\ barTimers' = barTimers \ { t }
                /\ UNCHANGED barFills
           ELSE IF t.index = 0
           THEN /\ barTimers' = (barTimers \ { t })
                                    \cup animateBarChart(chartDiv, barFills)
                /\ UNCHANGED barFills
           ELSE /\ barTimers' = barTimers \ { t }
                /\ barFills' = [ barFills EXCEPT ![t.index].width =
                                                     << t.targetWidth >> ]
        /\ UNCHANGED << chartDiv, observed, animated, barNow, barsLoaded,
                        lastUpdate >>
        /\ UNCHANGED besidesBars

\* 100 ms pass; no timer is overdue
barTick ==
    /\ barNow < MaxBarTime
    /\ \A t \in barTimers : t.due > barNow
    /\ barNow' = barNow + 1
    /\ UNCHANGED << barFills, chartDiv, observed, animated, barTimers,
                    barsLoaded, lastUpdate >>
    /\ UNCHANGED besidesBars

\* the data-value attributes of a chart served with the page
ServedCharts ==
    { [ index \in 1..NumBars |-> Fill(percentage(data, index), << >>) ] :
          data \in BarData }

\* a dashboard page whose chart container is empty or holds a served chart
InitBars ==
    /\ Page({ << >> }, { << >> })
    /\ ~hasInput /\ ~hasCircle /\ ~hasLabel /\ ~hasContainer
    /\ NoCharts
    /\ PaymentForm({ TRUE })
    /\ Navbar({ "index.js" }, { FALSE }, { "false" })
    /\ Carousel({ 0 }, { TRUE })
    /\ BarChart({ << >> } \cup ServedCharts)

NextBars ==
    \/ initializeBarCharts
    \/ observerCallback
    \/ \E data \in BarData : createBarChart(data)
    \/ \E newData \in BarData : updateBarChart(newData)
    \/ barTimerFires
    \/ barTick

SpecBars == InitBars /\ [][NextBars]_vars

\* C24: after updateBarChart(containerId, newData) every bar's width is
\* item.value / max(newData values) * 100 percent, 0 when the maximum is 0,
\* and it stays so: neither a staggered timer still pending from
\* createBarChart or animateBarChart nor a later first intersection of the
\* chart resets a bar to the width of its older data-value attribute.
C24_WidthsOfNewData ==
    lastUpdate # << >>
        => \A index \in 1..NumBars :
               barFills[index].width
                   = << percentage(lastUpdate[1], index) >>

====
